---- MODULE Spec2Model ----
(***************************************************************************)
(* Model of compiler/can/src/scope.rs: the Scope facade (lookup,           *)
(* introduce, import, aliases, inner_scope) over ScopedIdentIds (the       *)
(* identifier table with its parallel visibility and region arrays).       *)
(*                                                                         *)
(* Rust indices are 0-based; the sequences here are 1-based, so the entry  *)
(* with IdentId index i sits at position i + 1.                            *)
(***************************************************************************)
EXTENDS Integers, Sequences, FiniteSets, TLC

\* ---------------------------------------------------------------- bounds
MaxIdents  == 2   \* longest identifier table explored
MaxExposed == 1   \* largest number K of pre-seeded exposed names
MaxImports == 1   \* imports added on top of the default ones
MaxAliases == 1   \* longest alias registry explored
MaxDepth   == 1   \* deepest nesting of inner_scope

\* ---------------------------------------------------------------- values
Home        == "home"
Idents      == {"a", "b"}
ExposedPool == <<"a", "b">>
GenName     == ""
RegionZero  == 0
Region1     == 10
Region2     == 20
Regions     == {RegionZero, Region1}
NoRegion    == -1
NoId        == -1
NoSymbol    == <<"none", NoId>>
NoHeader    == <<NoRegion, NoRegion>>
ForeignSymbols == {<<"ext", 0>>}
AliasKinds  == {"Structural", "Opaque"}

Min(S) == CHOOSE x \in S : \A y \in S : x <= y
Max(S) == CHOOSE x \in S : \A y \in S : x >= y

SymbolNew(module, ident_id) == <<module, ident_id>>

\* Symbol::default_in_scope(): the built-in names every module starts with.
DefaultInScope ==
  << <<"Box",   <<"builtin", 0>>, RegionZero>>,
     <<"Set",   <<"builtin", 1>>, RegionZero>>,
     <<"Dict",  <<"builtin", 2>>, RegionZero>>,
     <<"Str",   <<"builtin", 3>>, RegionZero>>,
     <<"Ok",    <<"builtin", 4>>, RegionZero>>,
     <<"False", <<"builtin", 5>>, RegionZero>>,
     <<"List",  <<"builtin", 6>>, RegionZero>>,
     <<"True",  <<"builtin", 7>>, RegionZero>>,
     <<"Err",   <<"builtin", 8>>, RegionZero>> >>

AllNames == Idents \cup {"Str"}
MemberNames == {"a"}
ShadowedNames == {"a"}

VARIABLES
  locals,              \* ScopedIdentIds: [ident_ids, in_scope, regions]
  exposed_ident_count, \* Scope.exposed_ident_count
  imports,             \* Scope.imports: sequence of <<Ident, Symbol, Region>>
  aliases,             \* Scope.aliases: VecMap as a sequence of <<Symbol, Alias>>
  abilities_store,     \* the two facts Scope uses: [members, specializations]
  stack,               \* one frame per inner_scope call still running
  ret,                 \* the last call and what it returned
  issued,              \* history: the Symbols handed out by allocating calls, in order
  intro,               \* history: successful introductions whose scope is still open
  closed,              \* history: introductions made inside a scope that has returned
  hidden,              \* history: Symbols created invisible (shadow, scopeless, unique)
  entry_view,          \* history: per running inner_scope, lookup of every name at entry
  entry_scope          \* history: per running inner_scope, the registries at entry

vars == <<locals, exposed_ident_count, imports, aliases, abilities_store,
          stack, ret, issued, intro, closed, hidden, entry_view, entry_scope>>

\* ------------------------------------------------------- identifier table
\* IdentIds::len
IdentsLen(l) == Len(l.ident_ids)

\* IdentIds::get_id_many: every index allocated for the text, in allocation order
get_id_many(l, ident) == {i \in 0 .. IdentsLen(l) - 1 : l.ident_ids[i + 1] = ident}

\* IdentIds::get_id: the first index allocated for the text
get_id(l, ident) ==
  IF get_id_many(l, ident) = {} THEN NoId ELSE Min(get_id_many(l, ident))

\* IdentIds::add_ident: always appends, returns the new index
add_ident(ident_ids, ident) == Append(ident_ids, ident)

\* from_ident_ids that starts with every seeded entry visible
from_ident_ids_visible(ident_ids) ==
  [ident_ids |-> ident_ids,
   in_scope  |-> [i \in 1 .. Len(ident_ids) |-> TRUE],
   regions   |-> [i \in 1 .. Len(ident_ids) |-> RegionZero]]

\* ScopedIdentIds::from_ident_ids
from_ident_ids(ident_ids) ==
  [ident_ids |-> ident_ids,
   in_scope  |-> [i \in 1 .. Len(ident_ids) |-> FALSE],
   regions   |-> [i \in 1 .. Len(ident_ids) |-> RegionZero]]

\* ScopedIdentIds::snapshot
snapshot(l) == Len(l.ident_ids)

\* revert that forgets the snapshot and hides every entry
revert_from_zero(l, snap) ==
  [l EXCEPT !.in_scope = [i \in 1 .. Len(l.in_scope) |-> FALSE]]

\* revert that cuts the three arrays back to the snapshot length
revert_truncate(l, snap) ==
  [ident_ids |-> SubSeq(l.ident_ids, 1, snap),
   in_scope  |-> SubSeq(l.in_scope, 1, snap),
   regions   |-> SubSeq(l.regions, 1, snap)]

\* ScopedIdentIds::revert
revert(l, snap) ==
  [l EXCEPT !.in_scope =
     [i \in 1 .. Len(l.in_scope) |-> IF i - 1 >= snap THEN FALSE ELSE l.in_scope[i]]]

NotFound == [found |-> FALSE, symbol |-> NoSymbol, region |-> NoRegion]
Found(symbol, region) == [found |-> TRUE, symbol |-> symbol, region |-> region]

\* ScopedIdentIds::has_in_scope: the first visible entry among those of the text
has_in_scope(l, ident) ==
  LET vis == {i \in get_id_many(l, ident) : l.in_scope[i + 1]}
  IN  IF vis = {} THEN NotFound
      ELSE Found(SymbolNew(Home, Min(vis)), l.regions[Min(vis) + 1])

\* ScopedIdentIds::introduce_into_scope
introduce_into_scope(l, ident, region) ==
  [locals |-> [ident_ids |-> add_ident(l.ident_ids, ident),
               in_scope  |-> Append(l.in_scope, TRUE),
               regions   |-> Append(l.regions, region)],
   id     |-> Len(l.ident_ids)]

\* scopeless_symbol that marks the new entry visible
scopeless_symbol_visible(l, ident, region) ==
  [locals |-> [ident_ids |-> add_ident(l.ident_ids, ident),
               in_scope  |-> Append(l.in_scope, TRUE),
               regions   |-> Append(l.regions, region)],
   symbol |-> SymbolNew(Home, Len(l.ident_ids))]

\* ScopedIdentIds::scopeless_symbol
scopeless_symbol(l, ident, region) ==
  [locals |-> [ident_ids |-> add_ident(l.ident_ids, ident),
               in_scope  |-> Append(l.in_scope, FALSE),
               regions   |-> Append(l.regions, region)],
   symbol |-> SymbolNew(Home, Len(l.ident_ids))]

\* gen_unique that appends no region for the generated entry
gen_unique_without_region(l) ==
  [locals |-> [ident_ids |-> add_ident(l.ident_ids, GenName),
               in_scope  |-> Append(l.in_scope, FALSE),
               regions   |-> l.regions],
   id     |-> Len(l.ident_ids)]

\* ScopedIdentIds::gen_unique
gen_unique(l) ==
  [locals |-> [ident_ids |-> add_ident(l.ident_ids, GenName),
               in_scope  |-> Append(l.in_scope, FALSE),
               regions   |-> Append(l.regions, RegionZero)],
   id     |-> Len(l.ident_ids)]

\* ScopedIdentIds::idents_in_scope
RECURSIVE VisibleNames(_, _)
VisibleNames(l, i) ==
  IF i > Len(l.ident_ids) THEN <<>>
  ELSE (IF l.in_scope[i] THEN <<l.ident_ids[i]>> ELSE <<>>) \o VisibleNames(l, i + 1)

locals_idents_in_scope(l) == VisibleNames(l, 1)

\* ------------------------------------------------------------ Scope: reads
\* the first import entry with the name (the loops over self.imports)
ImportIndex(imps, ident) ==
  LET hits == {i \in 1 .. Len(imps) : imps[i][1] = ident}
  IN  IF hits = {} THEN 0 ELSE Min(hits)

\* scope_contains that searches the imports before the locals
scope_contains_imports_first(l, imps, ident) ==
  IF ImportIndex(imps, ident) # 0
  THEN Found(imps[ImportIndex(imps, ident)][2], imps[ImportIndex(imps, ident)][3])
  ELSE has_in_scope(l, ident)

\* Scope::scope_contains
scope_contains(l, imps, ident) ==
  IF has_in_scope(l, ident).found THEN has_in_scope(l, ident)
  ELSE IF ImportIndex(imps, ident) # 0
       THEN Found(imps[ImportIndex(imps, ident)][2], imps[ImportIndex(imps, ident)][3])
       ELSE NotFound

\* Scope::idents_in_scope: imports first, then the visible locals
idents_in_scope(l, imps) ==
  [i \in 1 .. Len(imps) |-> imps[i][1]] \o locals_idents_in_scope(l)

\* Scope::lookup
lookup(l, imps, ident) ==
  IF scope_contains(l, imps, ident).found
  THEN [ok |-> TRUE,  symbol |-> scope_contains(l, imps, ident).symbol, err |-> "None"]
  ELSE [ok |-> FALSE, symbol |-> NoSymbol, err |-> "LookupNotInScope"]

\* VecMap::get
AliasIndex(als, symbol) ==
  LET hits == {i \in 1 .. Len(als) : als[i][1] = symbol}
  IN  IF hits = {} THEN 0 ELSE Min(hits)

NoAlias == [kind |-> "None", region |-> NoRegion, vars |-> <<>>]

\* Scope::lookup_alias
lookup_alias(als, symbol) ==
  IF AliasIndex(als, symbol) = 0 THEN NoAlias ELSE als[AliasIndex(als, symbol)][2]

\* Alias::header_region: the span across the alias region and its variables' regions
header_region(alias) ==
  LET rs == {alias.region} \cup {alias.vars[i] : i \in 1 .. Len(alias.vars)}
  IN  <<Min(rs), Max(rs)>>

\* AbilitiesStore::is_ability_member_name
is_ability_member_name(store, symbol) == symbol \in store.members

\* AbilitiesStore::register_specializing_symbol
register_specializing_symbol(store, specializing, member) ==
  [store EXCEPT !.specializations = @ \cup {<<specializing, member>>}]

\* ----------------------------------------------------------- Scope: writes
\* commit_introduction without the exposed_ident_count test: any earlier entry is reused
commit_introduction_reuse_any(l, k, ident, region) ==
  LET ident_id == get_id(l, ident)
  IN  IF ident_id # NoId
      THEN [locals |-> [l EXCEPT !.in_scope[ident_id + 1] = TRUE,
                                 !.regions[ident_id + 1] = region],
            symbol |-> SymbolNew(Home, ident_id)]
      ELSE [locals |-> introduce_into_scope(l, ident, region).locals,
            symbol |-> SymbolNew(Home, introduce_into_scope(l, ident, region).id)]

\* commit_introduction that takes up the entry a scopeless_symbol call left behind
commit_introduction_reuse_last(l, k, ident, region) ==
  LET ids == get_id_many(l, ident)
  IN  IF ids # {} /\ (Min(ids) < k \/ ~l.in_scope[Max(ids) + 1])
      THEN LET ident_id == IF Min(ids) < k THEN Min(ids) ELSE Max(ids)
           IN  [locals |-> [l EXCEPT !.in_scope[ident_id + 1] = TRUE,
                                     !.regions[ident_id + 1] = region],
                symbol |-> SymbolNew(Home, ident_id)]
      ELSE [locals |-> introduce_into_scope(l, ident, region).locals,
            symbol |-> SymbolNew(Home, introduce_into_scope(l, ident, region).id)]

\* commit_introduction that leaves the region of a re-activated exposed entry alone
commit_introduction_keep_region(l, k, ident, region) ==
  LET ident_id == get_id(l, ident)
  IN  IF ident_id # NoId /\ ident_id < k
      THEN [locals |-> [l EXCEPT !.in_scope[ident_id + 1] = TRUE],
            symbol |-> SymbolNew(Home, ident_id)]
      ELSE [locals |-> introduce_into_scope(l, ident, region).locals,
            symbol |-> SymbolNew(Home, introduce_into_scope(l, ident, region).id)]

\* Scope::commit_introduction
commit_introduction(l, k, ident, region) ==
  LET ident_id == get_id(l, ident)
  IN  IF ident_id # NoId /\ ident_id < k
      THEN [locals |-> [l EXCEPT !.in_scope[ident_id + 1] = TRUE,
                                 !.regions[ident_id + 1] = region],
            symbol |-> SymbolNew(Home, ident_id)]
      ELSE [locals |-> introduce_into_scope(l, ident, region).locals,
            symbol |-> SymbolNew(Home, introduce_into_scope(l, ident, region).id)]

NoLoc == <<"", NoRegion>>
Loc(ident, region) == <<ident, region>>

\* introduce_without_shadow_symbol reporting the new region as the original one
introduce_without_shadow_symbol_new_region(l, k, imps, ident, region) ==
  LET hit == scope_contains(l, imps, ident)
  IN  IF hit.found
      THEN [ok |-> FALSE, locals |-> l, symbol |-> NoSymbol,
            original_region |-> region, shadow |-> Loc(ident, region)]
      ELSE [ok |-> TRUE, locals |-> commit_introduction(l, k, ident, region).locals,
            symbol |-> commit_introduction(l, k, ident, region).symbol,
            original_region |-> NoRegion, shadow |-> NoLoc]

\* introduce_without_shadow_symbol that allocates an entry for the rejected name
introduce_without_shadow_symbol_allocating(l, k, imps, ident, region) ==
  LET hit == scope_contains(l, imps, ident)
  IN  IF hit.found
      THEN [ok |-> FALSE, locals |-> scopeless_symbol(l, ident, region).locals,
            symbol |-> NoSymbol,
            original_region |-> hit.region, shadow |-> Loc(ident, region)]
      ELSE [ok |-> TRUE, locals |-> commit_introduction(l, k, ident, region).locals,
            symbol |-> commit_introduction(l, k, ident, region).symbol,
            original_region |-> NoRegion, shadow |-> NoLoc]

\* Scope::introduce_without_shadow_symbol
introduce_without_shadow_symbol(l, k, imps, ident, region) ==
  LET hit == scope_contains(l, imps, ident)
  IN  IF hit.found
      THEN [ok |-> FALSE, locals |-> l, symbol |-> NoSymbol,
            original_region |-> hit.region, shadow |-> Loc(ident, region)]
      ELSE [ok |-> TRUE, locals |-> commit_introduction(l, k, ident, region).locals,
            symbol |-> commit_introduction(l, k, ident, region).symbol,
            original_region |-> NoRegion, shadow |-> NoLoc]

\* introduce that reports the shadow without allocating a Symbol for it
introduce_no_shadow_symbol(l, k, imps, ident, region) ==
  introduce_without_shadow_symbol(l, k, imps, ident, region)

\* Scope::introduce
introduce(l, k, imps, ident, region) ==
  LET first == introduce_without_shadow_symbol(l, k, imps, ident, region)
  IN  IF first.ok THEN first
      ELSE [ok |-> FALSE,
            locals |-> scopeless_symbol(first.locals, ident, region).locals,
            symbol |-> scopeless_symbol(first.locals, ident, region).symbol,
            original_region |-> first.original_region, shadow |-> first.shadow]

\* introduce_or_shadow_ability_member that forgets to register the specialization
introduce_or_shadow_ability_member_unregistered(l, k, imps, store, ident, region) ==
  LET hit == scope_contains(l, imps, ident)
      sl  == scopeless_symbol(l, ident, region)
      new == commit_introduction(l, k, ident, region)
  IN  IF hit.found
      THEN IF is_ability_member_name(store, hit.symbol)
           THEN [ok |-> TRUE, locals |-> sl.locals, store |-> store,
                 symbol |-> sl.symbol, specializes |-> hit.symbol,
                 original_region |-> NoRegion, shadow |-> NoLoc]
           ELSE [ok |-> FALSE, locals |-> sl.locals, store |-> store,
                 symbol |-> sl.symbol, specializes |-> NoSymbol,
                 original_region |-> hit.region, shadow |-> Loc(ident, region)]
      ELSE [ok |-> TRUE, locals |-> new.locals, store |-> store,
            symbol |-> new.symbol, specializes |-> NoSymbol,
            original_region |-> NoRegion, shadow |-> NoLoc]

\* introduce_or_shadow_ability_member that allocates no Symbol for an illegal shadow
introduce_or_shadow_ability_member_no_shadow(l, k, imps, store, ident, region) ==
  LET hit == scope_contains(l, imps, ident)
      sl  == scopeless_symbol(l, ident, region)
      new == commit_introduction(l, k, ident, region)
  IN  IF hit.found
      THEN IF is_ability_member_name(store, hit.symbol)
           THEN [ok |-> TRUE, locals |-> sl.locals,
                 store |-> register_specializing_symbol(store, sl.symbol, hit.symbol),
                 symbol |-> sl.symbol, specializes |-> hit.symbol,
                 original_region |-> NoRegion, shadow |-> NoLoc]
           ELSE [ok |-> FALSE, locals |-> l, store |-> store,
                 symbol |-> NoSymbol, specializes |-> NoSymbol,
                 original_region |-> hit.region, shadow |-> Loc(ident, region)]
      ELSE [ok |-> TRUE, locals |-> new.locals, store |-> store,
            symbol |-> new.symbol, specializes |-> NoSymbol,
            original_region |-> NoRegion, shadow |-> NoLoc]

\* Scope::introduce_or_shadow_ability_member
introduce_or_shadow_ability_member(l, k, imps, store, ident, region) ==
  LET hit == scope_contains(l, imps, ident)
      sl  == scopeless_symbol(l, ident, region)
      new == commit_introduction(l, k, ident, region)
  IN  IF hit.found
      THEN IF is_ability_member_name(store, hit.symbol)
           THEN [ok |-> TRUE, locals |-> sl.locals,
                 store |-> register_specializing_symbol(store, sl.symbol, hit.symbol),
                 symbol |-> sl.symbol, specializes |-> hit.symbol,
                 original_region |-> NoRegion, shadow |-> NoLoc]
           ELSE [ok |-> FALSE, locals |-> sl.locals, store |-> store,
                 symbol |-> sl.symbol, specializes |-> NoSymbol,
                 original_region |-> hit.region, shadow |-> Loc(ident, region)]
      ELSE [ok |-> TRUE, locals |-> new.locals, store |-> store,
            symbol |-> new.symbol, specializes |-> NoSymbol,
            original_region |-> NoRegion, shadow |-> NoLoc]

\* import whose duplicate error carries the new Symbol and Region, not the first ones
import_reports_new(imps, ident, symbol, region) ==
  IF ImportIndex(imps, ident) # 0
  THEN [ok |-> FALSE, imports |-> imps, symbol |-> symbol, region |-> region]
  ELSE [ok |-> TRUE, imports |-> Append(imps, <<ident, symbol, region>>),
        symbol |-> NoSymbol, region |-> NoRegion]

\* Scope::import
import(imps, ident, symbol, region) ==
  IF ImportIndex(imps, ident) # 0
  THEN [ok |-> FALSE, imports |-> imps,
        symbol |-> imps[ImportIndex(imps, ident)][2],
        region |-> imps[ImportIndex(imps, ident)][3]]
  ELSE [ok |-> TRUE, imports |-> Append(imps, <<ident, symbol, region>>),
        symbol |-> NoSymbol, region |-> NoRegion]

\* create_alias: the fields of the Alias the scope reads later
create_alias(region, alias_vars, kind) ==
  [kind |-> kind, region |-> region, vars |-> alias_vars]

\* VecMap::insert: overwrite the entry of the key in place, or append
vecmap_insert(als, key, value) ==
  IF AliasIndex(als, key) # 0
  THEN [als EXCEPT ![AliasIndex(als, key)] = <<key, value>>]
  ELSE Append(als, <<key, value>>)

\* Scope::add_alias
add_alias(als, name, region, alias_vars, kind) ==
  vecmap_insert(als, name, create_alias(region, alias_vars, kind))

\* VecMap::truncate
vecmap_truncate(als, len) == IF len < Len(als) THEN SubSeq(als, 1, len) ELSE als

\* lookup_opaque_ref that resolves the name through scope_contains, imports included
lookup_opaque_ref_any_scope(l, imps, als, opaque, lookup_region) ==
  LET hit   == scope_contains(l, imps, opaque)
      alias == lookup_alias(als, hit.symbol)
      none  == [ok |-> FALSE, symbol |-> NoSymbol, alias |-> NoAlias,
                err |-> "OpaqueNotDefined", usage |-> Loc(opaque, lookup_region),
                opt_defined_alias |-> NoHeader,
                referenced_region |-> NoRegion, imported_region |-> NoRegion]
  IN  IF hit.found
      THEN IF alias = NoAlias THEN none
           ELSE IF alias.kind = "Structural"
                THEN [none EXCEPT !.opt_defined_alias = header_region(alias)]
                ELSE [none EXCEPT !.ok = TRUE, !.symbol = hit.symbol,
                                  !.alias = alias, !.err = "None", !.usage = NoLoc]
      ELSE none

\* Scope::lookup_opaque_ref
lookup_opaque_ref(l, imps, als, opaque, lookup_region) ==
  LET hit   == has_in_scope(l, opaque)
      alias == lookup_alias(als, hit.symbol)
      imp   == ImportIndex(imps, opaque)
      none  == [ok |-> FALSE, symbol |-> NoSymbol, alias |-> NoAlias,
                err |-> "OpaqueNotDefined", usage |-> Loc(opaque, lookup_region),
                opt_defined_alias |-> NoHeader,
                referenced_region |-> NoRegion, imported_region |-> NoRegion]
  IN  IF hit.found
      THEN IF alias = NoAlias THEN none
           ELSE IF alias.kind = "Structural"
                THEN [none EXCEPT !.opt_defined_alias = header_region(alias)]
                ELSE [none EXCEPT !.ok = TRUE, !.symbol = hit.symbol,
                                  !.alias = alias, !.err = "None", !.usage = NoLoc]
      ELSE IF imp # 0
           THEN [none EXCEPT !.err = "OpaqueOutsideScope", !.usage = NoLoc,
                             !.referenced_region = lookup_region,
                             !.imported_region = imps[imp][3]]
           ELSE none

\* ------------------------------------------------------------------ state
\* the registries of the scope as an inner_scope call finds them
Entry(als, store) == [aliases |-> als, abilities_store |-> store]

\* what a returned inner_scope call had found at entry: the abilities store and
\* the lookup of every name
AtEntry(entry, view) == [abilities_store |-> entry.abilities_store, view |-> view]
NoEntry ==
  AtEntry(Entry(<<>>, [members |-> {}, specializations |-> {}]),
          [n \in AllNames |-> [ok |-> FALSE, symbol |-> NoSymbol, err |-> "None"]])

\* what a call returned: one record shape for every operation
NoRet ==
  [op |-> "new", ident |-> "", ok |-> TRUE, symbol |-> NoSymbol,
   err |-> "None", original_region |-> NoRegion, loc |-> NoLoc,
   specializes |-> NoSymbol, opt_defined_alias |-> NoHeader, alias |-> NoAlias,
   referenced_region |-> NoRegion, imported_region |-> NoRegion,
   lookup_region |-> NoRegion, at_entry |-> NoEntry]

Depth == Len(stack)

\* lookup of every name, as a caller of the scope sees it
View(l, imps) == [n \in AllNames |-> lookup(l, imps, n)]

ImportsCap == Len(DefaultInScope) + MaxImports

\* the Symbols a caller can hold: those of the table and those of the imports
HomeSymbols(l) == {SymbolNew(Home, i) : i \in 0 .. IdentsLen(l) - 1}
ImportSymbols(imps) == {imps[i][2] : i \in 1 .. Len(imps)}

\* Scope::new
Init ==
  /\ \E k \in 0 .. Min({MaxExposed, Len(ExposedPool)}) :
       /\ exposed_ident_count = k
       /\ locals = from_ident_ids(SubSeq(ExposedPool, 1, k))
  /\ imports = DefaultInScope
  /\ aliases = <<>>
  /\ abilities_store = [members |-> {}, specializations |-> {}]
  /\ stack = <<>>
  /\ ret = NoRet
  /\ issued = <<>>
  /\ intro = {}
  /\ closed = {}
  /\ hidden = {}
  /\ entry_view = <<>>
  /\ entry_scope = <<>>

\* ---------------------------------------------------------------- actions
Lookup(ident, region) ==
  LET r == lookup(locals, imports, ident)
  IN  /\ ret' = [NoRet EXCEPT !.op = "lookup", !.ident = ident,
                              !.ok = r.ok, !.symbol = r.symbol, !.err = r.err,
                              !.loc = IF r.ok THEN NoLoc ELSE Loc(ident, region)]
      /\ UNCHANGED <<locals, exposed_ident_count, imports, aliases, abilities_store,
                     stack, issued, intro, closed, hidden, entry_view, entry_scope>>

Introduce(ident, region) ==
  LET r == introduce(locals, exposed_ident_count, imports, ident, region)
  IN  /\ IdentsLen(r.locals) <= MaxIdents
      /\ locals' = r.locals
      /\ ret' = [NoRet EXCEPT !.op = "introduce", !.ident = ident,
                              !.ok = r.ok, !.symbol = r.symbol,
                              !.err = IF r.ok THEN "None" ELSE "IllegalShadow",
                              !.original_region = r.original_region,
                              !.loc = r.shadow]
      /\ issued' = Append(issued, r.symbol)
      /\ intro' = IF r.ok
                  THEN intro \cup {[symbol |-> r.symbol, ident |-> ident, region |-> region,
                                    depth |-> Depth]}
                  ELSE intro
      /\ hidden' = IF r.ok THEN hidden
                   ELSE hidden \cup {[symbol |-> r.symbol, ident |-> ident,
                                      kind |-> "shadow"]}
      /\ UNCHANGED <<exposed_ident_count, imports, aliases, abilities_store,
                     stack, closed, entry_view, entry_scope>>

IntroduceWithoutShadowSymbol(ident, region) ==
  LET r == introduce_without_shadow_symbol(locals, exposed_ident_count, imports,
                                           ident, region)
  IN  /\ IdentsLen(r.locals) <= MaxIdents
      /\ locals' = r.locals
      /\ ret' = [NoRet EXCEPT !.op = "introduce_without_shadow_symbol",
                              !.ident = ident,
                              !.ok = r.ok, !.symbol = r.symbol,
                              !.err = IF r.ok THEN "None" ELSE "IllegalShadow",
                              !.original_region = r.original_region,
                              !.loc = r.shadow]
      /\ issued' = IF r.ok THEN Append(issued, r.symbol) ELSE issued
      /\ intro' = IF r.ok
                  THEN intro \cup {[symbol |-> r.symbol, ident |-> ident, region |-> region,
                                    depth |-> Depth]}
                  ELSE intro
      /\ UNCHANGED <<exposed_ident_count, imports, aliases, abilities_store,
                     stack, closed, hidden, entry_view, entry_scope>>

IntroduceOrShadowAbilityMember(ident, region) ==
  LET r == introduce_or_shadow_ability_member(locals, exposed_ident_count, imports,
                                              abilities_store, ident, region)
  IN  /\ IdentsLen(r.locals) <= MaxIdents
      /\ locals' = r.locals
      /\ abilities_store' = r.store
      /\ ret' = [NoRet EXCEPT !.op = "introduce_or_shadow_ability_member",
                              !.ident = ident,
                              !.ok = r.ok, !.symbol = r.symbol,
                              !.err = IF r.ok THEN "None" ELSE "IllegalShadow",
                              !.original_region = r.original_region,
                              !.loc = r.shadow,
                              !.specializes = r.specializes]
      /\ issued' = Append(issued, r.symbol)
      /\ intro' = IF r.ok /\ r.specializes = NoSymbol
                  THEN intro \cup {[symbol |-> r.symbol, ident |-> ident, region |-> region,
                                    depth |-> Depth]}
                  ELSE intro
      /\ hidden' = IF r.ok /\ r.specializes = NoSymbol THEN hidden
                   ELSE hidden \cup {[symbol |-> r.symbol, ident |-> ident,
                                      kind |-> IF r.ok THEN "specialization"
                                               ELSE "shadow"]}
      /\ UNCHANGED <<exposed_ident_count, imports, aliases, stack, closed, entry_view, entry_scope>>

ScopelessSymbol(ident, region) ==
  LET r == scopeless_symbol(locals, ident, region)
  IN  /\ IdentsLen(r.locals) <= MaxIdents
      /\ locals' = r.locals
      /\ ret' = [NoRet EXCEPT !.op = "scopeless_symbol", !.ident = ident,
                              !.symbol = r.symbol]
      /\ issued' = Append(issued, r.symbol)
      /\ hidden' = hidden \cup {[symbol |-> r.symbol, ident |-> ident,
                                 kind |-> "scopeless"]}
      /\ UNCHANGED <<exposed_ident_count, imports, aliases, abilities_store,
                     stack, intro, closed, entry_view, entry_scope>>

\* Scope::gen_unique_symbol
GenUniqueSymbol ==
  LET r == gen_unique(locals)
  IN  /\ IdentsLen(r.locals) <= MaxIdents
      /\ locals' = r.locals
      /\ ret' = [NoRet EXCEPT !.op = "gen_unique_symbol",
                              !.symbol = SymbolNew(Home, r.id)]
      /\ issued' = Append(issued, SymbolNew(Home, r.id))
      /\ hidden' = hidden \cup {[symbol |-> SymbolNew(Home, r.id), ident |-> GenName,
                                 kind |-> "unique"]}
      /\ UNCHANGED <<exposed_ident_count, imports, aliases, abilities_store,
                     stack, intro, closed, entry_view, entry_scope>>

Import(ident, symbol, region) ==
  LET r == import(imports, ident, symbol, region)
  IN  /\ Len(r.imports) <= ImportsCap
      /\ imports' = r.imports
      /\ ret' = [NoRet EXCEPT !.op = "import", !.ident = ident,
                              !.ok = r.ok, !.symbol = r.symbol,
                              !.err = IF r.ok THEN "None" ELSE "DuplicateImport",
                              !.original_region = r.region]
      /\ UNCHANGED <<locals, exposed_ident_count, aliases, abilities_store,
                     stack, issued, intro, closed, hidden, entry_view, entry_scope>>

AddAlias(name, region, alias_vars, kind) ==
  LET r == add_alias(aliases, name, region, alias_vars, kind)
  IN  /\ Len(r) <= MaxAliases
      /\ aliases' = r
      /\ ret' = [NoRet EXCEPT !.op = "add_alias", !.symbol = name]
      /\ UNCHANGED <<locals, exposed_ident_count, imports, abilities_store,
                     stack, issued, intro, closed, hidden, entry_view, entry_scope>>

LookupOpaqueRef(opaque, lookup_region) ==
  LET r == lookup_opaque_ref(locals, imports, aliases, opaque, lookup_region)
  IN  /\ ret' = [NoRet EXCEPT !.op = "lookup_opaque_ref", !.ident = opaque,
                              !.lookup_region = lookup_region,
                              !.ok = r.ok, !.symbol = r.symbol, !.err = r.err,
                              !.alias = r.alias, !.loc = r.usage,
                              !.opt_defined_alias = r.opt_defined_alias,
                              !.referenced_region = r.referenced_region,
                              !.imported_region = r.imported_region]
      /\ UNCHANGED <<locals, exposed_ident_count, imports, aliases, abilities_store,
                     stack, issued, intro, closed, hidden, entry_view, entry_scope>>

\* Scope::inner_scope, up to the call of the body
EnterInnerScope ==
  /\ Depth < MaxDepth
  /\ stack' = Append(stack, [aliases_count |-> Len(aliases),
                             locals_snapshot |-> snapshot(locals)])
  /\ entry_view' = Append(entry_view, View(locals, imports))
  /\ entry_scope' = Append(entry_scope, Entry(aliases, abilities_store))
  /\ ret' = [NoRet EXCEPT !.op = "inner_scope_enter"]
  /\ UNCHANGED <<locals, exposed_ident_count, imports, aliases, abilities_store,
                 issued, intro, closed, hidden>>

\* Scope::inner_scope, from the return of the body
ExitInnerScope ==
  /\ Depth > 0
  /\ aliases' = vecmap_truncate(aliases, stack[Depth].aliases_count)
  /\ locals' = revert(locals, stack[Depth].locals_snapshot)
  /\ stack' = SubSeq(stack, 1, Depth - 1)
  /\ entry_view' = SubSeq(entry_view, 1, Depth - 1)
  /\ entry_scope' = SubSeq(entry_scope, 1, Depth - 1)
  /\ ret' = [NoRet EXCEPT !.op = "inner_scope_exit", !.at_entry = AtEntry(entry_scope[Depth], entry_view[Depth])]
  /\ intro' = {r \in intro : r.depth < Depth}
  /\ closed' = {c \in closed : c.parent < Depth}
                 \cup {[symbol |-> r.symbol, ident |-> r.ident, parent |-> Depth - 1] :
                         r \in {x \in intro : x.depth = Depth}}
  /\ UNCHANGED <<exposed_ident_count, imports, abilities_store, issued, hidden>>

\* AbilitiesStore::register_ability, for a member name the scope resolves
RegisterAbilityMember(ident) ==
  /\ scope_contains(locals, imports, ident).found
  /\ scope_contains(locals, imports, ident).symbol \notin abilities_store.members
  /\ abilities_store' =
       [abilities_store EXCEPT !.members =
          @ \cup {scope_contains(locals, imports, ident).symbol}]
  /\ ret' = [NoRet EXCEPT !.op = "register_ability", !.ident = ident,
                          !.symbol = scope_contains(locals, imports, ident).symbol]
  /\ UNCHANGED <<locals, exposed_ident_count, imports, aliases,
                 stack, issued, intro, closed, hidden, entry_view, entry_scope>>

\* the canonicalization walk over binding sites and nested blocks
Next ==
  \/ \E n \in Idents, r \in Regions : Introduce(n, r)
  \/ \E n \in Idents, r \in Regions : IntroduceWithoutShadowSymbol(n, r)
  \/ \E n \in Idents, r \in Regions : IntroduceOrShadowAbilityMember(n, r)
  \/ \E n \in Idents : ScopelessSymbol(n, RegionZero)
  \/ GenUniqueSymbol
  \/ EnterInnerScope
  \/ ExitInnerScope

Spec == Init /\ [][Next]_vars

\* declarations next to imports, in nested blocks
NextVisible ==
  \/ \E n \in Idents : Introduce(n, RegionZero)
  \/ \E n \in Idents : ScopelessSymbol(n, RegionZero)
  \/ GenUniqueSymbol
  \/ \E n \in Idents, s \in ForeignSymbols : Import(n, s, RegionZero)
  \/ EnterInnerScope
  \/ ExitInnerScope

SpecVisible == Init /\ [][NextVisible]_vars

\* imports, declarations and references
NextImport ==
  \/ \E n \in AllNames, s \in ForeignSymbols, r \in Regions : Import(n, s, r)
  \/ \E n \in Idents, r \in Regions : Introduce(n, r)
  \/ \E n \in AllNames, r \in Regions : Lookup(n, r)

SpecImport == Init /\ [][NextImport]_vars

\* ability members and their specializations
NextAbility ==
  \/ \E n \in Idents : RegisterAbilityMember(n)
  \/ \E n \in Idents, r \in Regions : IntroduceOrShadowAbilityMember(n, r)
  \/ \E n \in Idents, r \in Regions : Introduce(n, r)
  \/ \E n \in Idents, s \in ForeignSymbols, r \in Regions : Import(n, s, r)

SpecAbility == Init /\ [][NextAbility]_vars

\* type aliases and opaque references
NextOpaque ==
  \/ \E s \in HomeSymbols(locals), k \in AliasKinds, v \in {<<>>, <<Region2>>} :
        AddAlias(s, Region1, v, k)
  \/ \E n \in AllNames : LookupOpaqueRef(n, Region1)
  \/ \E n \in Idents : Introduce(n, RegionZero)
  \/ \E n \in Idents, s \in ForeignSymbols : Import(n, s, RegionZero)

SpecOpaque == Init /\ [][NextOpaque]_vars

\* every operation that can return an error
NextErrors ==
  \/ \E n \in AllNames : Lookup(n, RegionZero)
  \/ \E n \in Idents : Introduce(n, RegionZero)
  \/ \E n \in Idents : IntroduceWithoutShadowSymbol(n, RegionZero)
  \/ \E n \in Idents : IntroduceOrShadowAbilityMember(n, RegionZero)
  \/ \E n \in AllNames, s \in ForeignSymbols : Import(n, s, RegionZero)
  \/ \E n \in AllNames : LookupOpaqueRef(n, RegionZero)
  \/ \E s \in HomeSymbols(locals), k \in AliasKinds : AddAlias(s, RegionZero, <<>>, k)

SpecErrors == Init /\ [][NextErrors]_vars

\* nested blocks that import and declare ability members
NextFrame ==
  \/ \E n \in MemberNames : RegisterAbilityMember(n)
  \/ \E n \in Idents : IntroduceOrShadowAbilityMember(n, RegionZero)
  \/ \E n \in MemberNames, s \in ForeignSymbols : Import(n, s, RegionZero)
  \/ EnterInnerScope
  \/ ExitInnerScope

SpecFrame == Init /\ [][NextFrame]_vars

\* nested blocks that declare type aliases
NextAlias ==
  \/ \E n \in Idents : Introduce(n, RegionZero)
  \/ \E s \in HomeSymbols(locals), k \in AliasKinds : AddAlias(s, RegionZero, <<>>, k)
  \/ EnterInnerScope
  \/ ExitInnerScope

SpecAlias == Init /\ [][NextAlias]_vars

\* symbols made without a binding, next to declarations, imports and aliases
NextHidden ==
  \/ \E n \in ShadowedNames : Introduce(n, RegionZero)
  \/ \E n \in ShadowedNames : ScopelessSymbol(n, RegionZero)
  \/ GenUniqueSymbol
  \/ \E n \in ShadowedNames, s \in ForeignSymbols : Import(n, s, RegionZero)
  \/ \E s \in {h.symbol : h \in hidden} \cup {r.symbol : r \in intro} :
        AddAlias(s, RegionZero, <<>>, "Opaque")
  \/ EnterInnerScope
  \/ ExitInnerScope

SpecHidden == Init /\ [][NextHidden]_vars

\* ----------------------------------------------------------------- claims
Ok(symbol) == [ok |-> TRUE, symbol |-> symbol, err |-> "None"]
NotInScope == [ok |-> FALSE, symbol |-> NoSymbol, err |-> "LookupNotInScope"]
IssuedBefore(n) == {issued[i] : i \in 1 .. n}

\* C1: every Symbol handed out by introduce, introduce_without_shadow_symbol,
\* introduce_or_shadow_ability_member, scopeless_symbol or gen_unique_symbol (on
\* success, or as the shadow symbol of an error) differs from every Symbol handed
\* out by an earlier call, at any nesting and for any number of exposed names.
C1_SymbolsUnique ==
  \A i, j \in 1 .. Len(issued) : i # j => issued[i] # issued[j]

\* an exposed entry re-used and then a shadow symbol for the same name, in a nested scope
C1_Witness ==
  /\ exposed_ident_count = 1
  /\ Depth > 0
  /\ Len(issued) = 2
  /\ issued[1] = SymbolNew(Home, 0)
  /\ \E h \in hidden : h.kind = "shadow" /\ h.symbol = issued[2]

\* C2: a second introduce of a name fails with the first call's region as the
\* original region and a fresh Symbol different from the first one; the name keeps
\* resolving to the first Symbol, never to a shadow Symbol, while its scope is open.
C2_SecondIntroduceShadows ==
  /\ (ret.op = "introduce" /\ ~ret.ok) =>
       \A r \in intro : r.ident = ret.ident =>
         /\ ret.original_region = r.region
         /\ ret.loc[1] = r.ident
         /\ ret.symbol # r.symbol
         /\ ret.symbol = issued[Len(issued)]
         /\ ret.symbol \notin IssuedBefore(Len(issued) - 1)
         /\ lookup(locals, imports, r.ident) = Ok(r.symbol)
  /\ \A r \in intro, h \in hidden :
       (h.kind = "shadow" /\ h.ident = r.ident) =>
         /\ h.symbol # r.symbol
         /\ lookup(locals, imports, r.ident) = Ok(r.symbol)

\* the second introduce has just failed, at a region other than the first one's
C2_Witness ==
  /\ ret.op = "introduce"
  /\ ~ret.ok
  /\ \E r \in intro : r.ident = ret.ident /\ r.region # ret.loc[2]

\* C3: when inner_scope returns, lookup of every name gives what it gave when
\* inner_scope was entered.
C3_InnerScopeRestoresLookup ==
  [][(Depth > 0 /\ stack' = SubSeq(stack, 1, Depth - 1))
       => View(locals', imports') = entry_view[Depth]]_vars

\* C4: a name introduced successfully resolves to the Symbol that call returned
\* after any further introduce, scopeless_symbol, gen_unique_symbol and import
\* calls, for as long as the scope it was introduced in has not returned.
C4_IntroducedStaysVisible ==
  \A r \in intro : lookup(locals, imports, r.ident) = Ok(r.symbol)

\* an introduced name that was imported afterwards, with invisible entries around it
C4_Witness ==
  \E r \in intro :
    /\ ImportIndex(imports, r.ident) # 0
    /\ \E h \in hidden : h.ident = r.ident
    /\ Depth > r.depth

\* C5: a name introduced only inside one inner_scope call does not resolve inside
\* a later sibling inner_scope call of the same parent.
C5_SiblingScopesIndependent ==
  \A c \in closed :
    ( /\ Depth = c.parent + 1
      /\ ~(\E r \in intro : r.ident = c.ident)
      /\ ImportIndex(imports, c.ident) = 0 )
    => ~lookup(locals, imports, c.ident).ok

\* C6: introducing a name that is in the import table fails as an illegal shadow
\* carrying the import's region and a fresh Symbol other than the imported one, and
\* the name resolves to the imported Symbol before and after the call.
C6_IntroduceShadowsImport ==
  [][(ret'.op = "introduce" /\ ImportIndex(imports, ret'.ident) # 0) =>
       LET imp == imports[ImportIndex(imports, ret'.ident)]
       IN  /\ ~ret'.ok
           /\ ret'.original_region = imp[3]
           /\ ret'.symbol # imp[2]
           /\ ret'.symbol \notin HomeSymbols(locals)
           /\ lookup(locals, imports, ret'.ident) = Ok(imp[2])
           /\ lookup(locals', imports', ret'.ident) = Ok(imp[2])]_vars

C8_AbilityMemberSpecialized ==
  [][(/\ ret'.op = "introduce_or_shadow_ability_member"
      /\ scope_contains(locals, imports, ret'.ident).found) =>
       LET o == scope_contains(locals, imports, ret'.ident)
           n == ret'.symbol
       IN  /\ n = SymbolNew(Home, IdentsLen(locals))
           /\ n # o.symbol
           /\ n \notin HomeSymbols(locals) \cup ImportSymbols(imports)
           /\ n \in HomeSymbols(locals')
           /\ lookup(locals', imports', ret'.ident) = Ok(o.symbol)
           /\ IF is_ability_member_name(abilities_store, o.symbol)
              THEN /\ ret'.ok
                   /\ ret'.specializes = o.symbol
                   /\ abilities_store'.specializations =
                        abilities_store.specializations \cup {<<n, o.symbol>>}
                   /\ abilities_store'.members = abilities_store.members
              ELSE /\ ~ret'.ok
                   /\ ret'.err = "IllegalShadow"
                   /\ ret'.original_region = o.region
                   /\ ret'.specializes = NoSymbol
                   /\ abilities_store' = abilities_store]_vars

\* the same ability member has been specialized twice
C8_Witness ==
  /\ ret.op = "introduce_or_shadow_ability_member"
  /\ ret.ok
  /\ \E s1, s2 \in HomeSymbols(locals) :
       /\ s1 # s2
       /\ <<s1, ret.specializes>> \in abilities_store.specializations
       /\ <<s2, ret.specializes>> \in abilities_store.specializations

\* C9: lookup_opaque_ref succeeds with (Symbol, Alias) exactly when the name is a
\* visible local with an Opaque alias. A visible local without alias gives
\* OpaqueNotDefined without alias location, one with a Structural alias gives
\* OpaqueNotDefined with the alias's header region; without a visible local, an
\* import of the name gives OpaqueOutsideScope with the lookup region and the
\* import's region, and a name in neither gives OpaqueNotDefined.
C9_OpaqueRef ==
  ret.op = "lookup_opaque_ref" =>
    LET hit   == has_in_scope(locals, ret.ident)
        alias == lookup_alias(aliases, hit.symbol)
        imp   == ImportIndex(imports, ret.ident)
    IN  /\ ret.ok <=> (hit.found /\ alias.kind = "Opaque")
        /\ ret.ok => ret.symbol = hit.symbol /\ ret.alias = alias /\ ret.err = "None"
        /\ (hit.found /\ alias = NoAlias) =>
             ret.err = "OpaqueNotDefined" /\ ret.opt_defined_alias = NoHeader
        /\ (hit.found /\ alias.kind = "Structural") =>
             /\ ret.err = "OpaqueNotDefined"
             /\ ret.opt_defined_alias = header_region(alias)
        /\ (~hit.found /\ imp # 0) =>
             /\ ret.err = "OpaqueOutsideScope"
             /\ ret.referenced_region = ret.lookup_region
             /\ ret.imported_region = imports[imp][3]
        /\ (~hit.found /\ imp = 0) =>
             ret.err = "OpaqueNotDefined" /\ ret.opt_defined_alias = NoHeader

\* an opaque reference resolved to the local although the name is imported as well
C9_Witness ==
  /\ ret.op = "lookup_opaque_ref"
  /\ ret.ok
  /\ ImportIndex(imports, ret.ident) # 0

\* C10 as stated: every error comes with a Symbol the caller can continue with.
C10_EveryErrorCarriesSymbol ==
  ~ret.ok => ret.symbol \in HomeSymbols(locals) \cup ImportSymbols(imports)

\* C10, amended: the IllegalShadow error of introduce and of
\* introduce_or_shadow_ability_member carries a freshly allocated Symbol of the
\* table and the DuplicateImport error carries the first import's Symbol; the
\* errors of lookup, introduce_without_shadow_symbol and lookup_opaque_ref carry
\* no Symbol.
C10_ErrorSymbols ==
  ~ret.ok =>
    IF ret.op \in {"introduce", "introduce_or_shadow_ability_member"}
    THEN /\ ret.symbol = SymbolNew(Home, IdentsLen(locals) - 1)
         /\ ret.symbol = issued[Len(issued)]
         /\ ret.symbol \notin IssuedBefore(Len(issued) - 1)
         /\ locals.ident_ids[IdentsLen(locals)] = ret.ident
    ELSE IF ret.op = "import"
    THEN ret.symbol = imports[ImportIndex(imports, ret.ident)][2]
    ELSE /\ ret.op \in {"lookup", "introduce_without_shadow_symbol", "lookup_opaque_ref"}
         /\ ret.symbol = NoSymbol

\* a shadowing introduction has failed in a scope that holds an import beyond the defaults
C10_Witness ==
  /\ ret.op = "introduce_or_shadow_ability_member"
  /\ ~ret.ok
  /\ Len(imports) > Len(DefaultInScope)

\* C11: no name is at the same time a visible local and an entry of the import
\* table, after any sequence of import and introduce calls.
C11_ImportLocalExclusive ==
  \A n \in AllNames :
    ~(has_in_scope(locals, n).found /\ ImportIndex(imports, n) # 0)

C13_RollbackKeepsRegistries ==
  [][/\ IdentsLen(locals') >= IdentsLen(locals)
     /\ SubSeq(locals'.ident_ids, 1, IdentsLen(locals)) = locals.ident_ids
     /\ Len(locals'.in_scope) >= Len(locals.in_scope)
     /\ Len(locals'.regions) >= Len(locals.regions)
     /\ ret'.op = "inner_scope_exit" =>
          /\ imports' = imports
          /\ abilities_store' = abilities_store
          /\ locals'.ident_ids = locals.ident_ids
          /\ Len(locals'.in_scope) = Len(locals.in_scope)
          /\ locals'.regions = locals.regions]_vars

\* inner_scope has returned from a body that imported a name and registered a
\* specialization, allocating an entry for it
C13_Witness ==
  /\ ret.op = "inner_scope_exit"
  /\ \E n \in Idents :
       /\ ~ret.at_entry.view[n].ok
       /\ ImportIndex(imports, n) # 0
       /\ lookup(locals, imports, n).symbol \in ForeignSymbols
  /\ abilities_store.specializations # ret.at_entry.abilities_store.specializations
  /\ \E sp \in abilities_store.specializations : sp[1] \in HomeSymbols(locals)

\* C14: introduce_without_shadow_symbol fails exactly when introduce would, that
\* is when the name resolves to a local or an import; the failed call returns the
\* original region and the new name and region, no Symbol, and leaves the
\* identifier table, the visibility flags, the regions, the imports and the
\* aliases as they were.
C14_FailedIntroduceAllocatesNothing ==
  [][ret'.op = "introduce_without_shadow_symbol" =>
       LET hit == scope_contains(locals, imports, ret'.ident)
       IN  /\ ret'.ok <=> ~hit.found
           /\ \A r \in Regions :
                introduce(locals, exposed_ident_count, imports, ret'.ident, r).ok
                  <=> ret'.ok
           /\ hit.found =>
                /\ ret'.err = "IllegalShadow"
                /\ ret'.original_region = hit.region
                /\ ret'.loc[1] = ret'.ident
                /\ ret'.loc[2] \in Regions
                /\ ret'.symbol = NoSymbol
                /\ UNCHANGED <<locals, exposed_ident_count, imports, aliases,
                               abilities_store, issued>>]_vars

\* introduce_without_shadow_symbol has failed on a name that only an import binds
C14_Witness ==
  /\ ret.op = "introduce_without_shadow_symbol"
  /\ ~ret.ok
  /\ ImportIndex(imports, ret.ident) # 0
  /\ ~has_in_scope(locals, ret.ident).found

\* the indices below exposed_ident_count that hold the name
ExposedIds(ident) ==
  {i \in 0 .. exposed_ident_count - 1 : locals.ident_ids[i + 1] = ident}

\* C15: a successful introduction of a pre-seeded name returns the Symbol of the
\* name's pre-seeded index, does not grow the identifier table, marks that entry
\* visible and gives it the new region; a successful introduction of a name that
\* is not pre-seeded appends an entry at an index >= exposed_ident_count.
C15_ExposedKeepsIndex ==
  [][(/\ ret'.op \in {"introduce", "introduce_without_shadow_symbol",
                      "introduce_or_shadow_ability_member"}
      /\ ret'.ok
      /\ ret'.specializes = NoSymbol) =>
       IF ExposedIds(ret'.ident) # {}
       THEN LET i == Min(ExposedIds(ret'.ident))
            IN  /\ ret'.symbol = SymbolNew(Home, i)
                /\ ~locals.in_scope[i + 1]
                /\ locals'.ident_ids = locals.ident_ids
                /\ locals'.in_scope = [locals.in_scope EXCEPT ![i + 1] = TRUE]
                /\ \E r \in intro' :
                     /\ r.symbol = ret'.symbol
                     /\ r.depth = Depth
                     /\ locals'.regions = [locals.regions EXCEPT ![i + 1] = r.region]
       ELSE /\ ret'.symbol = SymbolNew(Home, IdentsLen(locals))
            /\ ret'.symbol[2] >= exposed_ident_count
            /\ IdentsLen(locals') = IdentsLen(locals) + 1
            /\ locals'.ident_ids[IdentsLen(locals')] = ret'.ident
            /\ locals'.in_scope[IdentsLen(locals')]]_vars

\* a pre-seeded name has been introduced in a nested scope at a region other than
\* the one the construction gave its entry
C15_Witness ==
  /\ ret.op = "introduce"
  /\ ret.ok
  /\ exposed_ident_count > 0
  /\ ret.symbol[2] < exposed_ident_count
  /\ locals.regions[ret.symbol[2] + 1] = Region1
  /\ Depth > 0

\* C16: from any state and for any name that does not resolve to an ability
\* member, introduce_or_shadow_ability_member and introduce leave the same
\* identifier table, return the same Symbol, paired with None on success, or the
\* same original region, name and shadow Symbol on failure, and the abilities
\* store stays as it was.
C16_LikeIntroduceOffMembers ==
  \A n \in Idents, r \in Regions :
    LET hit == scope_contains(locals, imports, n)
        a   == introduce_or_shadow_ability_member(locals, exposed_ident_count, imports,
                                                  abilities_store, n, r)
        b   == introduce(locals, exposed_ident_count, imports, n, r)
    IN  ~(hit.found /\ is_ability_member_name(abilities_store, hit.symbol)) =>
          /\ a.ok = b.ok
          /\ a.locals = b.locals
          /\ a.symbol = b.symbol
          /\ a.original_region = b.original_region
          /\ a.shadow = b.shadow
          /\ a.specializes = NoSymbol
          /\ a.store = abilities_store

\* introduce_or_shadow_ability_member has failed on a name bound to a Symbol that
\* is no ability member, in a scope where another name is one
C16_Witness ==
  /\ ret.op = "introduce_or_shadow_ability_member"
  /\ ~ret.ok
  /\ abilities_store.members # {}
  /\ ~is_ability_member_name(abilities_store,
                             scope_contains(locals, imports, ret.ident).symbol)

\* the entries of the name whose visibility flag is set
VisibleIds(ident) == {i \in get_id_many(locals, ident) : locals.in_scope[i + 1]}

\* C17: among the identifier-table entries allocated for one text, at most one
\* has its visibility flag set.
C17_OneVisiblePerName ==
  \A n \in Idents \cup {GenName} : Cardinality(VisibleIds(n)) <= 1

\* a name introduced again after the nested scope that introduced it first has
\* returned: two entries of the text, one of them visible
C17_Witness ==
  \E c \in closed :
    /\ Cardinality(get_id_many(locals, c.ident)) >= 2
    /\ Cardinality(VisibleIds(c.ident)) = 1
    /\ ~locals.in_scope[c.symbol[2] + 1]

\* C18: when inner_scope returns, lookup_alias gives for every Symbol what it
\* gave when inner_scope was entered, whatever add_alias calls the body made.
C18_AliasesRestored ==
  [][ret'.op = "inner_scope_exit" =>
       \A s \in HomeSymbols(locals) \cup ForeignSymbols :
         lookup_alias(aliases', s) = lookup_alias(entry_scope[Depth].aliases, s)]_vars

\* C19: lookup returns the Symbol of the name's visible local entry if there is
\* one, also when the name is in the import table; otherwise the Symbol of the
\* first import entry with the name; otherwise NotInScope. It changes no state.
C19_LocalsBeforeImports ==
  [][ret'.op = "lookup" =>
       LET vis  == VisibleIds(ret'.ident)
           hits == {i \in 1 .. Len(imports) : imports[i][1] = ret'.ident}
       IN  /\ IF vis # {}
              THEN ret'.ok /\ ret'.symbol = SymbolNew(Home, Min(vis))
              ELSE IF hits # {}
                   THEN ret'.ok /\ ret'.symbol = imports[Min(hits)][2]
                   ELSE /\ ~ret'.ok
                        /\ ret'.err = "LookupNotInScope"
                        /\ ret'.symbol = NoSymbol
           /\ UNCHANGED <<locals, exposed_ident_count, imports, aliases,
                          abilities_store, stack>>]_vars

\* lookup has returned the local Symbol of a name that is in the import table too
C19_Witness ==
  /\ ret.op = "lookup"
  /\ ret.ok
  /\ ret.symbol[1] = Home
  /\ ImportIndex(imports, ret.ident) # 0

\* C20: a Symbol made by scopeless_symbol, by gen_unique_symbol or as the shadow
\* Symbol of a failed introduce has its visibility flag clear from its creation
\* on, and neither lookup nor lookup_opaque_ref returns it for any name.
C20_HiddenNeverResolves ==
  \A h \in hidden :
    h.kind \in {"scopeless", "unique", "shadow"} =>
      /\ ~locals.in_scope[h.symbol[2] + 1]
      /\ \A n \in AllNames \cup {GenName} :
           /\ lookup(locals, imports, n).symbol # h.symbol
           /\ lookup_opaque_ref(locals, imports, aliases, n, RegionZero).symbol # h.symbol

\* after a nested scope has returned, the name of a shadow Symbol resolves by
\* lookup and by lookup_opaque_ref, to the Symbol introduced first
C20_Witness ==
  /\ ret.op = "inner_scope_exit"
  /\ \E h \in hidden :
       /\ h.kind = "shadow"
       /\ lookup(locals, imports, h.ident).ok
       /\ lookup_opaque_ref(locals, imports, aliases, h.ident, RegionZero).ok

\* the names of the import table, in table order
ImportNames == [i \in 1 .. Len(imports) |-> imports[i][1]]

\* the indices of the visible entries, and the name list they give in index order
VisibleIndices == {i \in 1 .. IdentsLen(locals) : locals.in_scope[i]}
RECURSIVE NamesOf(_)
NamesOf(S) ==
  IF S = {} THEN <<>> ELSE <<locals.ident_ids[Min(S)]>> \o NamesOf(S \ {Min(S)})

\* the position of a name among the visible locals, 0 if it is not there
LocalPosition(ident) ==
  LET names == locals_idents_in_scope(locals)
      hits  == {i \in 1 .. Len(names) : names[i] = ident}
  IN  IF hits = {} THEN 0 ELSE Min(hits)

\* C21: the names in scope are the import names in table order followed by the
\* names of the visible entries in allocation order; a name introduced in a
\* nested scope stands after the names of the enclosing scopes while the nested
\* scope runs and is absent once it has returned; scopeless and generated
\* entries never appear.
C21_NamesInScope ==
  /\ idents_in_scope(locals, imports) = ImportNames \o NamesOf(VisibleIndices)
  /\ \A h \in hidden : h.symbol[2] + 1 \notin VisibleIndices
  /\ \A r1, r2 \in intro :
       r1.depth < r2.depth => LocalPosition(r1.ident) < LocalPosition(r2.ident)
  /\ \A c \in closed :
       (Depth = c.parent /\ ~(\E r \in intro : r.ident = c.ident))
         => LocalPosition(c.ident) = 0

\* C22: the identifier table, the visibility-flag array and the region array
\* have the same length in every state, so the index a growth operation gets
\* from the table is the length of the two arrays, as its assertions require.
C22_ArraysInLockStep ==
  /\ Len(locals.ident_ids) = Len(locals.in_scope)
  /\ Len(locals.ident_ids) = Len(locals.regions)
  /\ DOMAIN locals.in_scope = 1 .. IdentsLen(locals)
  /\ DOMAIN locals.regions = 1 .. IdentsLen(locals)
  /\ \A f \in {stack[i] : i \in 1 .. Depth} : f.locals_snapshot <= Len(locals.in_scope)

\* a table seeded with an exposed name has grown by an invisible entry and a
\* nested scope has been rolled back
C22_Witness ==
  /\ ret.op = "inner_scope_exit"
  /\ exposed_ident_count = 1
  /\ IdentsLen(locals) > exposed_ident_count
  /\ hidden # {}
  /\ closed # {}

\* the names of the default imports
DefaultNames == {DefaultInScope[i][1] : i \in 1 .. Len(DefaultInScope)}

====
